---------------------------- MODULE Spec2Model ----------------------------
(***************************************************************************)
(* Model of web-status (src/src/main.rs): an axum service with two JSON    *)
(* handlers over a read-only AppState.                                     *)
(*                                                                         *)
(*   node_latency  - 7 serial eth_blockNumber probes, each timed; a failed *)
(*                   probe is recorded as 3000 ms; p50/p95 by nearest rank *)
(*                   and a three-level status from p95.                    *)
(*   latest_block  - one eth_blockNumber call, the hex result parsed to a  *)
(*                   u64.                                                  *)
(*                                                                         *)
(* Conventions.  f64 milliseconds are integers (whole milliseconds); NaN   *)
(* is the value NaN below and every f64 comparison goes through FLe, which *)
(* is false on NaN as IEEE comparison is.  The percentile argument p is    *)
(* given in percent (0.50 is 50, 0.95 is 95).  A Rust &str is a sequence   *)
(* of one-character strings.  The handlers share no mutable state (only    *)
(* the read-only AppState), so each is explored by a specification of its  *)
(* own: Spec (one latency round, all probe outcomes), SpecConc (several    *)
(* rounds interleaved), SpecBlock (latest_block) and SpecPercentile (the   *)
(* function percentile on arbitrary slices).                               *)
(***************************************************************************)
EXTENDS Integers, Sequences, FiniteSets, TLC

VARIABLES
    pc,        \* pc[r]: position of round r's node_latency task
    samples,   \* samples[r]: the Vec `samples` of round r
    inflight,  \* probes between `t0 = Instant::now()` and `samples.push`
    s,         \* s[r]: the Vec `s` (clone of samples) handed to percentile
    resp,      \* resp[r]: the LatencyResp returned by round r
    bpc,       \* position of the latest_block task
    breply,    \* upstream's answer to latest_block's request
    bresp,     \* the JSON body latest_block returns
    pv0,       \* SpecPercentile: the slice the caller starts with
    pv,        \* SpecPercentile: the caller's slice
    pvBefore,  \* SpecPercentile: the slice as it was before the latest call
    pp,        \* SpecPercentile: the p (percent) of the latest call
    pret,      \* SpecPercentile: the value the latest call returned
    pcalls     \* SpecPercentile: calls made so far

vars == <<pc, samples, inflight, s, resp, bpc, breply, bresp,
          pv0, pv, pvBefore, pp, pret, pcalls>>

latencyVars == <<pc, samples, inflight, s, resp>>
blockVars == <<bpc, breply, bresp>>
pctVars == <<pv0, pv, pvBefore, pp, pret, pcalls>>

----------------------------------------------------------------------------
(* Bounds of the exploration *)

\* concurrent dashboard requests to /api/node-latency (SpecConc)
MaxRounds == 2
\* longest `result` string upstream sends (SpecBlock)
MaxHexLen == 5
\* longest slice handed to percentile (SpecPercentile)
MaxLen == 4
\* successive percentile calls on the same slice (SpecPercentile)
MaxCalls == 2

Rounds == 1..MaxRounds

\* elapsed times of a probe, in ms: the top of the ok band, the bottom and
\* the top of the warn band, and a time longer than the penalty
ElapsedValues == {300, 301, 800, 3001}

----------------------------------------------------------------------------
(* Program constants *)

\* `let n = 7usize;`
n == 7
\* the sentinel recorded for a failed probe, `3000.0`
Penalty == 3000
\* `p95 <= 300.0`
OkMax == 300
\* `p95 <= 800.0`
WarnMax == 800
\* f64::NAN (elapsed times are never negative)
NaN == -1

\* IEEE `a <= b`: false when either side is NaN
FLe(a, b) == a # NaN /\ b # NaN /\ a <= b

----------------------------------------------------------------------------
(* percentile (main.rs 52-57) *)

\* insert x into the ascending sequence w, after the elements equal to it
\* (the sort is stable)
RECURSIVE Insert(_, _)
Insert(x, w) ==
    IF w = <<>> THEN <<x>>
    ELSE IF x < Head(w) THEN <<x>> \o w
    ELSE <<Head(w)>> \o Insert(x, Tail(w))

\* `v.sort_by(|a, b| a.partial_cmp(b).unwrap())`: v ascending.  No sample is
\* NaN, so the unwrap never fails.
RECURSIVE SortAsc(_)
SortAsc(v) ==
    IF v = <<>> THEN <<>>
    ELSE Insert(v[Len(v)], SortAsc(SubSeq(v, 1, Len(v) - 1)))

Min2(a, b) == IF a <= b THEN a ELSE b

\* a mutant of PercentileIndex: the product truncated instead of rounded
PercentileIndexFloor(len, p) ==
    Min2((p * (len - 1)) \div 100, len - 1)

\* `((p * (v.len() as f64 - 1.0)).round() as usize).min(v.len() - 1)` for
\* len >= 1: f64::round rounds half away from zero, and p * (len - 1) >= 0.
\* The value is a 0-based index.
PercentileIndex(len, p) ==
    Min2((2 * p * (len - 1) + 100) \div 200, len - 1)

\* a mutant of percentile: the slice is indexed as it came, never sorted
percentileUnsorted(v, p) ==
    [v   |-> v,
     ret |-> IF v = <<>> THEN NaN ELSE v[PercentileIndex(Len(v), p) + 1]]

\* percentile(v: &mut [f64], p): sorts the caller's slice in place, then
\* returns NaN for an empty slice and v[idx] otherwise.  `v` is the slice as
\* the call leaves it, `ret` the value returned.
percentile(v, p) ==
    LET sorted == SortAsc(v)
    IN  [v   |-> sorted,
         ret |-> IF sorted = <<>> THEN NaN
                 ELSE sorted[PercentileIndex(Len(sorted), p) + 1]]

----------------------------------------------------------------------------
(* node_latency (main.rs 97-129) and rpc_block_number (main.rs 41-50) *)

\* What upstream can do with one probe: the transport fails, or it answers
\* with an HTTP status and a body.  The body kinds are a JSON-RPC result, a
\* JSON-RPC error object, and bytes that are not JSON.  The 3xx answer is
\* one the client does not follow (it names no Location) and hands back.
ProbeReplies ==
    { [transport |-> FALSE, status |-> 0,   body |-> "none"],
      [transport |-> TRUE,  status |-> 500, body |-> "rpc_result"],
      [transport |-> TRUE,  status |-> 300, body |-> "none"],
      [transport |-> TRUE,  status |-> 200, body |-> "rpc_result"],
      [transport |-> TRUE,  status |-> 200, body |-> "rpc_error"],
      [transport |-> TRUE,  status |-> 200, body |-> "malformed"] }

\* the replies SpecConc draws from; there every probe takes the penalty
\* time, so that the states differ by the interleaving only
ConcReplies ==
    { [transport |-> FALSE, status |-> 0,   body |-> "none"],
      [transport |-> TRUE,  status |-> 200, body |-> "rpc_result"] }

Pending == [transport |-> FALSE, status |-> -1, body |-> "pending"]

\* rpc_block_number(..).is_ok(): `send().await?` fails on a transport error,
\* `error_for_status()?` on a 4xx/5xx status; the body is never read.
rpc_block_number(reply) ==
    reply.transport /\ ~(reply.status >= 400 /\ reply.status < 600)

\* `if ok { ms } else { 3000.0 }`
Sample(ok, ms) == IF ok THEN ms ELSE Penalty

\* a mutant of Status: the band edges taken as exclusive
StatusExclusive(p95) ==
    IF p95 = NaN THEN "down"
    ELSE IF p95 < OkMax THEN "ok"
    ELSE IF p95 < WarnMax THEN "warn"
    ELSE "down"

\* `let status = if p95.is_nan() {..} else if p95 <= 300.0 {..} ...`
Status(p95) ==
    IF p95 = NaN THEN "down"
    ELSE IF FLe(p95, OkMax) THEN "ok"
    ELSE IF FLe(p95, WarnMax) THEN "warn"
    ELSE "down"

NoLatencyResp == [p50_ms |-> NaN, p95_ms |-> NaN, samples |-> 0, status |-> "none"]

InFlightOf(r) == {m \in inflight : m.req = r}

\* a mutant of CanStartProbe: the probes are issued without awaiting the
\* one before (as a join over 7 futures would)
CanStartProbeParallel(r) ==
    /\ pc[r] \in {"loop", "await"}
    /\ Len(samples[r]) + Cardinality(InFlightOf(r)) < n

\* the loop `for _ in 0..n` is at its head: the body before it has run to
\* its end (the await has returned and the sample is pushed)
CanStartProbe(r) ==
    /\ pc[r] = "loop"
    /\ Len(samples[r]) < n

\* axum calls the handler for a GET /api/node-latency
LatencyRequest(r) ==
    /\ pc[r] = "idle"
    /\ pc' = [pc EXCEPT ![r] = "loop"]
    /\ samples' = [samples EXCEPT ![r] = <<>>]
    /\ UNCHANGED <<inflight, s, resp>>
    /\ UNCHANGED <<blockVars, pctVars>>

\* `let t0 = Instant::now();` and the request is sent: the task suspends
\* on the await
StartProbe(r) ==
    /\ CanStartProbe(r)
    /\ inflight' = inflight \cup
          { [req |-> r,
             idx |-> Len(samples[r]) + Cardinality(InFlightOf(r)) + 1,
             reply |-> Pending, ms |-> 0] }
    /\ pc' = [pc EXCEPT ![r] = "await"]
    /\ UNCHANGED <<samples, s, resp>>
    /\ UNCHANGED <<blockVars, pctVars>>

\* upstream answers (or the transport gives up) ms milliseconds after t0
ProbeReply(r, reply, ms) ==
    /\ \E m \in InFlightOf(r) :
          /\ m.reply = Pending
          /\ inflight' = (inflight \ {m}) \cup
                {[m EXCEPT !.reply = reply, !.ms = ms]}
    /\ UNCHANGED <<pc, samples, s, resp>>
    /\ UNCHANGED <<blockVars, pctVars>>

\* the await returns: `ok`, `ms = t0.elapsed()` and `samples.push(..)`
CompleteProbe(r) ==
    /\ \E m \in InFlightOf(r) :
          /\ m.reply # Pending
          /\ samples' = [samples EXCEPT ![r] =
                Append(@, Sample(rpc_block_number(m.reply), m.ms))]
          /\ inflight' = inflight \ {m}
    /\ pc' = [pc EXCEPT ![r] = "loop"]
    /\ UNCHANGED <<s, resp>>
    /\ UNCHANGED <<blockVars, pctVars>>

\* after the loop: clone, the two percentile calls on the same `s`, the
\* status, and the response
Aggregate(r) ==
    /\ pc[r] = "loop"
    /\ Len(samples[r]) = n
    /\ LET c50 == percentile(samples[r], 50)
           c95 == percentile(c50.v, 95)
       IN  /\ s' = [s EXCEPT ![r] = c95.v]
           /\ resp' = [resp EXCEPT ![r] =
                 [p50_ms |-> c50.ret, p95_ms |-> c95.ret,
                  samples |-> n, status |-> Status(c95.ret)]]
    /\ pc' = [pc EXCEPT ![r] = "done"]
    /\ UNCHANGED <<samples, inflight>>
    /\ UNCHANGED <<blockVars, pctVars>>

----------------------------------------------------------------------------
(* hex_to_u64 (main.rs 92-95) *)

\* the characters a `result` string is made of here
Chars == {"0", "1", "2", "a", "x", "z"}

HexStrings == UNION {[1..k -> Chars] : k \in 0..MaxHexLen}

LowerHex == <<"0","1","2","3","4","5","6","7","8","9","a","b","c","d","e","f">>
UpperHex == <<"0","1","2","3","4","5","6","7","8","9","A","B","C","D","E","F">>

\* char::to_digit(16)
IsHexDigit(c) == \E i \in 1..16 : LowerHex[i] = c \/ UpperHex[i] = c
DigitVal(c) == (CHOOSE i \in 1..16 : LowerHex[i] = c \/ UpperHex[i] = c) - 1

\* `hex.trim_start_matches("0x")`: the prefix is removed as often as it
\* occurs
RECURSIVE TrimStart0x(_)
TrimStart0x(h) ==
    IF Len(h) >= 2 /\ h[1] = "0" /\ h[2] = "x"
    THEN TrimStart0x(SubSeq(h, 3, Len(h)))
    ELSE h

RECURSIVE HexValue(_)
HexValue(d) ==
    IF d = <<>> THEN 0
    ELSE 16 * HexValue(SubSeq(d, 1, Len(d) - 1)) + DigitVal(d[Len(d)])

RECURSIVE DropLeadingZeros(_)
DropLeadingZeros(d) ==
    IF d # <<>> /\ d[1] = "0" THEN DropLeadingZeros(Tail(d)) ELSE d

\* u64::from_str_radix(src, 16): Err on the empty string, on a lone sign,
\* on a character that is no hex digit, and on a value of more than 64 bits
\* (more than 16 significant digits); one leading "+" is accepted.
from_str_radix16(src) ==
    LET digits == IF src # <<>> /\ src[1] = "+" THEN Tail(src) ELSE src
    IN  IF digits = <<>> THEN [ok |-> FALSE, val |-> 0]
        ELSE IF \E i \in 1..Len(digits) : ~IsHexDigit(digits[i])
             THEN [ok |-> FALSE, val |-> 0]
        ELSE IF Len(DropLeadingZeros(digits)) > 16
             THEN [ok |-> FALSE, val |-> 0]
        ELSE [ok |-> TRUE, val |-> HexValue(digits)]

hex_to_u64(hex) == from_str_radix16(TrimStart0x(hex))

----------------------------------------------------------------------------
(* latest_block (main.rs 140-162) *)

\* CHAIN_NAME's default
chain_name == "unknown"

Hex0x0 == <<"0", "x", "0">>

\* The body upstream sends: `json` says whether it is a JSON object at all,
\* `jsonrpc` and `id` whether those members are there with the types
\* JsonRpcResp wants (String, u32), `error` whether there is an error member.
\* Every shape is sent without a result string, and the well-formed success
\* shape with every result string.
BlockBodies ==
    {[json |-> FALSE, jsonrpc |-> FALSE, id |-> FALSE, error |-> FALSE,
      result |-> [kind |-> "absent", str |-> <<>>]]}
    \cup [json : {TRUE}, jsonrpc : BOOLEAN, id : BOOLEAN, error : BOOLEAN,
          result : {[kind |-> "absent", str |-> <<>>],
                    [kind |-> "other", str |-> <<>>]}]
    \cup {[json |-> TRUE, jsonrpc |-> TRUE, id |-> TRUE, error |-> FALSE,
           result |-> [kind |-> "string", str |-> h]] : h \in HexStrings}

NoBody == [json |-> FALSE, jsonrpc |-> FALSE, id |-> FALSE, error |-> FALSE,
           result |-> [kind |-> "none", str |-> <<>>]]

BlockReplies ==
    {[transport |-> FALSE, status |-> 0, body |-> NoBody]}
    \cup [transport : {TRUE}, status : {200}, body : BlockBodies]
    \cup {[transport |-> TRUE, status |-> 500,
           body |-> [json |-> TRUE, jsonrpc |-> TRUE, id |-> TRUE,
                     error |-> TRUE,
                     result |-> [kind |-> "absent", str |-> <<>>]]]}

NoBlockReply == [transport |-> FALSE, status |-> -1, body |-> NoBody]

NoBlockResp == [blockNumberHex |-> <<>>, blockNumber |-> 0, chain |-> ""]

\* `.json::<JsonRpcResp>().await` is Ok: the body is a JSON object with the
\* required members jsonrpc and id (result and error are Options)
DecodesAsJsonRpcResp(body) == body.json /\ body.jsonrpc /\ body.id

\* axum calls the handler for a GET /api/latest-block; the request is sent
BlockRequest ==
    /\ bpc = "idle"
    /\ bpc' = "await"
    /\ UNCHANGED <<breply, bresp>>
    /\ UNCHANGED <<latencyVars, pctVars>>

\* upstream answers, or the transport gives up
BlockReply ==
    /\ bpc = "await"
    /\ breply = NoBlockReply
    /\ \E reply \in BlockReplies : breply' = reply
    /\ UNCHANGED <<bpc, bresp>>
    /\ UNCHANGED <<latencyVars, pctVars>>

\* the awaits return.  `.send().await.unwrap()` panics on a transport
\* error and `.json().await.unwrap()` on a body that does not decode: the
\* task ends without a response.  Otherwise the three unwrap_or defaults
\* apply and the JSON body is returned.  The HTTP status is not looked at.
BlockFinish ==
    /\ bpc = "await"
    /\ breply # NoBlockReply
    /\ IF ~breply.transport \/ ~DecodesAsJsonRpcResp(breply.body)
       THEN /\ bpc' = "panicked"
            /\ UNCHANGED bresp
       ELSE LET block_str == IF breply.body.result.kind = "string"
                             THEN breply.body.result.str
                             ELSE Hex0x0
                parsed == hex_to_u64(block_str)
                block_num == IF parsed.ok THEN parsed.val ELSE 0
            IN  /\ bpc' = "done"
                /\ bresp' = [blockNumberHex |-> block_str,
                             blockNumber |-> block_num,
                             chain |-> chain_name]
    /\ UNCHANGED breply
    /\ UNCHANGED <<latencyVars, pctVars>>

----------------------------------------------------------------------------
(* percentile called on arbitrary slices *)

\* the p of a call, in percent
Percents == {0, 50, 95, 100}

SampleValues == ElapsedValues \cup {Penalty}

Slices == UNION {[1..k -> SampleValues] : k \in 0..MaxLen}

\* a caller runs percentile(&mut pv, p)
CallPercentile(p) ==
    /\ pcalls < MaxCalls
    /\ LET c == percentile(pv, p)
       IN  /\ pv' = c.v
           /\ pret' = c.ret
    /\ pvBefore' = pv
    /\ pp' = p
    /\ pcalls' = pcalls + 1
    /\ UNCHANGED pv0
    /\ UNCHANGED <<latencyVars, blockVars>>

----------------------------------------------------------------------------
(* Specifications *)

InitLatency ==
    /\ pc = [r \in Rounds |-> "idle"]
    /\ samples = [r \in Rounds |-> <<>>]
    /\ inflight = {}
    /\ s = [r \in Rounds |-> <<>>]
    /\ resp = [r \in Rounds |-> NoLatencyResp]

InitBlock ==
    /\ bpc = "idle"
    /\ breply = NoBlockReply
    /\ bresp = NoBlockResp

InitPct ==
    /\ pv0 = <<>>
    /\ pv = <<>>
    /\ pvBefore = <<>>
    /\ pp = 0
    /\ pret = NaN
    /\ pcalls = 0

Init == InitLatency /\ InitBlock /\ InitPct

\* one latency round, every probe outcome
Next ==
    \/ LatencyRequest(1)
    \/ StartProbe(1)
    \/ \E reply \in ProbeReplies, ms \in ElapsedValues : ProbeReply(1, reply, ms)
    \/ CompleteProbe(1)
    \/ Aggregate(1)

Spec == Init /\ [][Next]_vars

\* MaxRounds latency rounds interleaved
NextConc ==
    \E r \in Rounds :
        \/ LatencyRequest(r)
        \/ StartProbe(r)
        \/ \E reply \in ConcReplies : ProbeReply(r, reply, Penalty)
        \/ CompleteProbe(r)
        \/ Aggregate(r)

SpecConc == Init /\ [][NextConc]_vars

\* the block-height query
NextBlock ==
    \/ BlockRequest
    \/ BlockReply
    \/ BlockFinish

SpecBlock == Init /\ [][NextBlock]_vars

\* percentile on every slice of at most MaxLen samples
InitPercentile ==
    /\ InitLatency
    /\ InitBlock
    /\ pv0 \in Slices
    /\ pv = pv0
    /\ pvBefore = pv0
    /\ pp = 0
    /\ pret = NaN
    /\ pcalls = 0

NextPercentile == \E p \in Percents : CallPercentile(p)

SpecPercentile == InitPercentile /\ [][NextPercentile]_vars

----------------------------------------------------------------------------
(* Properties *)

Range(q) == {q[i] : i \in 1..Len(q)}
SeqMax(q) == CHOOSE x \in Range(q) : \A y \in Range(q) : y <= x
SeqMin(q) == CHOOSE x \in Range(q) : \A y \in Range(q) : x <= y
Last(q) == q[Len(q)]

\* a probe failed in the words of the latency contract: a transport error
\* or an HTTP status outside 2xx
ReplyFailed(reply) == ~reply.transport \/ reply.status \notin 200..299

\* C1: latest_block never panics: whatever upstream does, the handler
\* returns a body, and that body is "0x0"/0 when upstream gave no usable
\* result string.
C1_AlwaysReturns ==
    /\ bpc # "panicked"
    /\ (bpc = "done" /\ breply.body.result.kind # "string")
          => (bresp.blockNumberHex = Hex0x0 /\ bresp.blockNumber = 0)

\* C2: a probe answered with HTTP success and a JSON-RPC error object, or
\* with a body that is not JSON, is recorded as the penalty 3000 and not as
\* its elapsed time.
C2_ProtocolErrorIsPenalty ==
    [][\A m \in inflight :
          ( /\ m.reply.transport
            /\ m.reply.status = 200
            /\ m.reply.body \in {"rpc_error", "malformed"}
            /\ Len(samples'[m.req]) = Len(samples[m.req]) + 1 )
          => Last(samples'[m.req]) = 3000]_vars

\* C3: a round's samples grow one at a time in probe order, the i-th being
\* 3000 if the i-th probe failed and its elapsed time otherwise; a finished
\* round has exactly 7 samples and reports samples = 7; seven failures give
\* seven samples of 3000 and the status down.
C3_RoundSamples ==
    [][\A r \in Rounds :
          /\ \/ samples'[r] = samples[r]
             \/ samples'[r] = <<>>
             \/ \E m \in inflight :
                   /\ m.req = r
                   /\ m.idx = Len(samples[r]) + 1
                   /\ samples'[r] = Append(samples[r],
                         IF ReplyFailed(m.reply) THEN 3000 ELSE m.ms)
          /\ pc'[r] = "done" =>
                /\ Len(samples'[r]) = 7
                /\ resp'[r].samples = 7
                /\ (\A i \in 1..7 : samples'[r][i] = 3000)
                      => resp'[r].status = "down"]_vars

\* the bands of the status as the contract states them
Bands(x) ==
    CASE x = NaN -> "down"
      [] x # NaN /\ x <= 300 -> "ok"
      [] x # NaN /\ x > 300 /\ x <= 800 -> "warn"
      [] x # NaN /\ x > 800 -> "down"

ClassifyInputs == {NaN, 0, 300, 301, 800, 801, 3000, 3001, 10000}

\* C4: the status is a function of p95 alone: NaN gives down, p95 <= 300
\* ok, 300 < p95 <= 800 warn, anything above down; every response of a
\* round carries the status of its own p95.
C4_StatusFromP95 ==
    /\ \A x \in ClassifyInputs : Status(x) = Bands(x)
    /\ \A r \in Rounds :
          pc[r] = "done" => resp[r].status = Bands(resp[r].p95_ms)

\* C4's case: a round whose p95 sits on the upper edge of the warn band,
\* with a p50 in the ok band
C4_Witness ==
    /\ pc[1] = "done"
    /\ resp[1].p95_ms = 800
    /\ resp[1].p50_ms = 300
    /\ resp[1].status = "warn"

\* C5: a round has at most one probe in flight, and the probe in flight is
\* the one after the samples recorded so far, whatever the other rounds do.
C5_ProbesSequential ==
    \A r \in Rounds :
        /\ Cardinality(InFlightOf(r)) <= 1
        /\ \A m \in InFlightOf(r) : m.idx = Len(samples[r]) + 1

\* C5's case: two rounds each with a probe in flight at the same time, one
\* of them past its first probe
C5_Witness ==
    \E m1 \in InFlightOf(1), m2 \in InFlightOf(2) :
        /\ m1.idx >= 2
        /\ m1.reply = Pending
        /\ m2.reply = Pending

\* C6: percentile leaves the caller's sequence as it was, and what a call
\* returns does not depend on the calls before it.
C6_CallerSliceUntouched ==
    pcalls > 0 =>
        /\ pv = pvBefore
        /\ pv = pv0
        /\ pret = percentile(pv0, pp).ret

\* the index round(p * (len - 1)), ties away from zero: the integer k with
\* -1/2 < k - p * (len - 1) <= 1/2, p in percent
NearestRank(len, p) ==
    CHOOSE k \in 0..(len - 1) :
        /\ -100 < 200 * k - 2 * p * (len - 1)
        /\ 200 * k - 2 * p * (len - 1) <= 100

\* x is the element at 0-based index k of S sorted ascending
IsOrderStatistic(x, S, k) ==
    /\ x \in Range(S)
    /\ Cardinality({i \in 1..Len(S) : S[i] < x}) <= k
    /\ k < Cardinality({i \in 1..Len(S) : S[i] <= x})

\* C7: on a non-empty S, percentile(S, 0) is the minimum, percentile(S, 1)
\* the maximum, and percentile(S, p) the element at index
\* round(p * (len - 1)) of S sorted ascending.
C7_NearestRank ==
    (pcalls > 0 /\ pvBefore # <<>>) =>
        /\ pp = 0 => pret = SeqMin(pvBefore)
        /\ pp = 100 => pret = SeqMax(pvBefore)
        /\ IsOrderStatistic(pret, pvBefore, NearestRank(Len(pvBefore), pp))

\* C7's case: p = 0.5 on a descending pair, where 0.5 * 1 is a tie and
\* rounds up to the larger element
C7_Witness ==
    /\ pcalls = 1
    /\ Len(pvBefore) = 2
    /\ pvBefore[1] > pvBefore[2]
    /\ pp = 50
    /\ pret = pvBefore[1]

\* the value the contract gives a hex string: one optional "0x" removed,
\* the rest read in base 16, 0 when the rest is not hexadecimal
ContractHexValue(h) ==
    LET rest == IF Len(h) >= 2 /\ h[1] = "0" /\ h[2] = "x"
                THEN SubSeq(h, 3, Len(h)) ELSE h
    IN  IF rest # <<>> /\ \A i \in 1..Len(rest) : IsHexDigit(rest[i])
        THEN HexValue(rest)
        ELSE 0

\* C8: blockNumber is the result string with one optional "0x" removed
\* read in base 16, and 0 if that is not hexadecimal, with the string
\* returned as blockNumberHex unchanged; without a result the body is
\* "0x0" and 0.
C8_HexParse ==
    bpc = "done" =>
        /\ breply.body.result.kind = "string" =>
              /\ bresp.blockNumberHex = breply.body.result.str
              /\ bresp.blockNumber = ContractHexValue(breply.body.result.str)
        /\ breply.body.result.kind = "absent" =>
              /\ bresp.blockNumberHex = Hex0x0
              /\ bresp.blockNumber = 0

\* C9: in every response of a round p50 <= p95, and both are samples of
\* that round.
C9_P50LeP95 ==
    \A r \in Rounds :
        pc[r] = "done" =>
            /\ resp[r].p50_ms <= resp[r].p95_ms
            /\ resp[r].p50_ms \in Range(samples[r])
            /\ resp[r].p95_ms \in Range(samples[r])

\* C9's case: a finished round whose samples came in descending from the
\* first to the last and whose percentiles differ
C9_Witness ==
    /\ pc[1] = "done"
    /\ samples[1][1] > samples[1][4]
    /\ samples[1][4] > samples[1][7]
    /\ resp[1].p50_ms < resp[1].p95_ms

\* C10 as stated: p95 is the largest of the 7 samples; one penalty sample
\* makes p95 = 3000 and the status down; the status is ok only if all 7
\* samples are <= 300.  (A sample of 3000 is a failed probe: no elapsed
\* time drawn here is 3000.)
C10_OnePenaltyGives3000 ==
    \A r \in Rounds :
        pc[r] = "done" =>
            /\ resp[r].p95_ms = SeqMax(samples[r])
            /\ 3000 \in Range(samples[r]) =>
                  (resp[r].p95_ms = 3000 /\ resp[r].status = "down")
            /\ resp[r].status = "ok" =>
                  \A i \in 1..7 : samples[r][i] <= 300

\* C10 amended: p95 is the largest of the 7 samples; one penalty sample
\* makes p95 >= 3000 and the status down, and p95 is 3000 exactly when no
\* sample is above 3000; the status is ok exactly if all 7 samples are
\* <= 300.
C10_OnePenaltyGivesDown ==
    \A r \in Rounds :
        pc[r] = "done" =>
            /\ Len(samples[r]) = 7
            /\ resp[r].p95_ms = SeqMax(samples[r])
            /\ 3000 \in Range(samples[r]) =>
                  /\ resp[r].p95_ms >= 3000
                  /\ resp[r].status = "down"
                  /\ resp[r].p95_ms = 3000
                        <=> \A i \in 1..7 : samples[r][i] <= 3000
            /\ resp[r].status = "ok"
                  <=> \A i \in 1..7 : samples[r][i] <= 300

\* C10's case: one failed probe among six probes of 300 ms
C10_Witness ==
    /\ pc[1] = "done"
    /\ Cardinality({i \in 1..7 : samples[1][i] = 3000}) = 1
    /\ \A i \in 1..7 : samples[1][i] \in {300, 3000}
    /\ resp[1].p95_ms = 3000
    /\ resp[1].p50_ms = 300
    /\ resp[1].status = "down"

============================================================================
